---- MODULE Spec2Model ----
\* A model of the TrumpTrader pipeline: the scraper loop with its dedup store
\* (chrome_scrapper.py), the one-shot service that classifies the scraped item,
\* trades on it and notifies (service.py), and the order engine (schwab.py).
\*
\* Conventions
\*   - a text item (fingerprint) is a number 1..MaxTexts; 0 is "no text" (None or
\*     the empty string, both falsy in Python);
\*   - an optional value is a sequence of length at most one: <<>> is None;
\*   - a string is a sequence of one-character strings;
\*   - money is counted in cents, so that 333.33 is the integer 33333.
EXTENDS Integers, Sequences, FiniteSets, TLC

\* --------------------------------------------------------------- bounds
MaxTexts == 2
MaxRuns == 3
MaxPolls == 1
MaxHdrLen == 3
MaxResponseLen == 4
MaxTweetLen == 2
MaxCalls == 3
MaxCycles == 2
MaxLines == 4

\* ------------------------------------------------------ program constants
\* service.py: dollar_amount = 1000.0, in cents
dollar_amount == 100000

None == <<>>
Some(v) == <<v>>

Texts == 1..MaxTexts

\* ----------------------------------------------------- the dedup file
\* The persisted file SEEN_TWEETS_FILE as load_seen_tweets tells its contents
\* apart:
\*   absent      os.path.exists is false
\*   unreadable  open() raises IOError
\*   invalid     the bytes are no JSON document
\*   torn        a write of the list that stopped before the closing bracket
\*               (items holds the entries that reached the disk): no JSON either
\*   list        a JSON array of strings, items in file order
\*   number      a JSON number
\*   object      a JSON object, items holds its keys
\*   nested      a JSON array that holds an array
AbsentFile == [kind |-> "absent", items |-> <<>>]
ListFile(s) == [kind |-> "list", items |-> s]
TornFile(s) == [kind |-> "torn", items |-> s]

\* The files a first start may find.
InitialFiles ==
    { AbsentFile, ListFile(<<>>), ListFile(<<1>>),
      [kind |-> "unreadable", items |-> <<>>],
      [kind |-> "invalid", items |-> <<>>],
      [kind |-> "number", items |-> <<>>],
      [kind |-> "object", items |-> <<1>>],
      [kind |-> "nested", items |-> <<>>] }

Range(s) == { s[i] : i \in 1..Len(s) }

\* load_seen_tweets: the set it returns, or the exception it lets escape.
\* Only IOError and json.JSONDecodeError are caught; len(data) raises TypeError
\* for a number and set(data) raises TypeError for an unhashable member, and
\* set(data) of an object is the set of its keys.
load_seen_tweets(f) ==
    CASE f.kind = "absent" -> [raised |-> FALSE, set |-> {}]
      [] f.kind \in {"unreadable", "invalid", "torn"} -> [raised |-> FALSE, set |-> {}]
      [] f.kind \in {"list", "object"} -> [raised |-> FALSE, set |-> Range(f.items)]
      [] f.kind \in {"number", "nested"} -> [raised |-> TRUE, set |-> {}]

\* list(tweets_set): the members once each, in an order Python chooses.
ListsOf(S) ==
    { s \in [1..Cardinality(S) -> S] : \A i, j \in 1..Cardinality(S) : s[i] = s[j] => i = j }

Prefixes(s) == { SubSeq(s, 1, k) : k \in 0..Len(s) }

SaveOutcomes == {"ok", "open_error", "write_error", "killed"}

\* save_seen_tweets opening the file for appending: the list is written after
\* what the file held.
save_seen_tweets_appending(tweets_set, f, outcome) ==
    { ListFile(f.items \o s) : s \in ListsOf(tweets_set) }

\* save_seen_tweets: the files it can leave behind. open(filepath, 'w')
\* truncates the file in place and json.dump then writes the list into it:
\*   ok           the whole list was written and the file closed
\*   open_error   open() raised IOError, the old file is untouched
\*   write_error  a write raised IOError after the truncation (caught, logged)
\*   killed       the process died between the truncation and the close
save_seen_tweets(tweets_set, f, outcome) ==
    CASE outcome = "ok" -> { ListFile(s) : s \in ListsOf(tweets_set) }
      [] outcome = "open_error" -> { f }
      [] outcome \in {"write_error", "killed"} ->
            UNION { { TornFile(p) : p \in Prefixes(s) } : s \in ListsOf(tweets_set) }

\* is_new without the test of the text itself.
is_new_any(current_tweet_text, seen) ==
    current_tweet_text \notin seen

\* is_new = current_tweet_text and current_tweet_text not in seen_tweets
is_new(current_tweet_text, seen) ==
    current_tweet_text # 0 /\ current_tweet_text \notin seen

\* ----------------------------------------------------- the order engine
\* The characters a location header is built from, digits and others.
Digits == {"1", "7"}
Chars == Digits \cup {"/", "x"}

\* Every string of at most n characters.
Strings(n) == UNION { [1..k -> Chars] : k \in 0..n }

\* The answers of client.order_place: the transport may fail (an exception),
\* else there is an HTTP status and, possibly, a location header.
BrokerResponses ==
    [transport_ok : BOOLEAN, status : {200, 201, 400, 500},
     location : {None} \cup { Some(h) : h \in Strings(MaxHdrLen) }]

\* The answers of client.quote: ok is false for an HTTP error or a payload
\* without the symbol; ask and last are the optional askPrice and lastPrice.
Prices == {-100, 0, 33333, 100000, 100001}
OptPrices == {None} \cup { Some(p) : p \in Prices }
Quotes == [ok : BOOLEAN, ask : OptPrices, last : OptPrices]

\* resp.raise_for_status(): raises for a 4xx or 5xx status.
raise_for_status(status) == 400 <= status /\ status < 600

\* location_header.split('/')[-1]: what follows the last '/', or the whole
\* string when it holds none.
LastSegment(h) ==
    LET slashes == { i \in 1..Len(h) : h[i] = "/" }
        start == IF slashes = {} THEN 1
                 ELSE (CHOOSE i \in slashes : \A j \in slashes : j <= i) + 1
    IN SubSeq(h, start, Len(h))

\* A variant of isdigit that forgets the empty string.
isdigit_any(s) == \A i \in 1..Len(s) : s[i] \in Digits

\* str.isdigit(): non-empty and every character a digit.
isdigit(s) == Len(s) > 0 /\ \A i \in 1..Len(s) : s[i] \in Digits

\* What a call of the engine leaves behind:
\*   raised    an exception escapes to the caller
\*   order_id  the identifier handed back (None when there is none)
\*   quantity  the quantity handed back (None when nothing is handed back)
\*   calls     the number of client.order_place calls made
\*   order     the order passed to client.order_place, if one was
Raise(calls, order) ==
    [raised |-> TRUE, order_id |-> None, quantity |-> None, calls |-> calls, order |-> order]
Return(order_id, quantity, calls, order) ==
    [raised |-> FALSE, order_id |-> order_id, quantity |-> quantity, calls |-> calls, order |-> order]

\* order_instruction.upper(), on the instructions a caller may pass
upper(instr) ==
    CASE instr = "buy" -> "BUY"
      [] instr = "sell" -> "SELL"
      [] OTHER -> instr

\* A variant of place_order_internal that submits a second time when the
\* first submission fails.
place_order_internal_retry(quantity, order_instruction, resp) ==
    IF quantity <= 0 THEN Raise(0, None)
    ELSE LET order == Some([instruction |-> upper(order_instruction), quantity |-> quantity])
         IN IF ~resp.transport_ok \/ raise_for_status(resp.status) THEN Raise(2, order)
            ELSE IF resp.location # None /\ resp.location[1] # <<>>
                    /\ isdigit(LastSegment(resp.location[1]))
                 THEN Return(Some(LastSegment(resp.location[1])), None, 1, order)
                 ELSE Return(None, None, 1, order)

\* A variant of place_order_internal without the check of the quantity.
place_order_internal_unchecked(quantity, order_instruction, resp) ==
    LET order == Some([instruction |-> upper(order_instruction), quantity |-> quantity])
    IN IF ~resp.transport_ok \/ raise_for_status(resp.status) THEN Raise(1, order)
       ELSE IF resp.location # None /\ resp.location[1] # <<>>
               /\ isdigit(LastSegment(resp.location[1]))
            THEN Return(Some(LastSegment(resp.location[1])), None, 1, order)
            ELSE Return(None, None, 1, order)

\* place_order_internal: one client.order_place call, then the identifier is
\* read off the location header. It returns (resp, order_id), no quantity.
place_order_internal(quantity, order_instruction, resp) ==
    IF quantity <= 0 THEN Raise(0, None)
    ELSE LET order == Some([instruction |-> upper(order_instruction), quantity |-> quantity])
         IN IF ~resp.transport_ok \/ raise_for_status(resp.status) THEN Raise(1, order)
            ELSE IF resp.location # None /\ resp.location[1] # <<>>
                 THEN LET order_id == LastSegment(resp.location[1])
                      IN IF isdigit(order_id)
                         THEN Return(Some(order_id), None, 1, order)
                         ELSE Return(None, None, 1, order)
                 ELSE Return(None, None, 1, order)

\* The engine's terminal state for a submission, read off what
\* place_order_internal does: it raises (Failed), returns an identifier
\* (Confirmed) or returns None for it (Unconfirmed).
EngineState(out) ==
    IF out.raised THEN "Failed"
    ELSE IF out.order_id # None THEN "Confirmed" ELSE "Unconfirmed"

\* A variant of get_quote that answers with a price kept from an earlier call
\* instead of the one just fetched.
get_quote_kept(q) == [raised |-> FALSE, price |-> Some(100000)]

\* get_quote: the ask price unless it is missing or zero, then the last price;
\* the price chosen must be positive or ValueError is raised.
get_quote(q) ==
    IF ~q.ok THEN [raised |-> TRUE, price |-> None]
    ELSE LET price == IF q.ask = None \/ q.ask = Some(0) THEN q.last ELSE q.ask
         IN IF price # None /\ price[1] # 0 /\ price[1] > 0
            THEN [raised |-> FALSE, price |-> price]
            ELSE [raised |-> TRUE, price |-> None]

\* A variant of floor_div that rounds up.
floor_div_up(amount, current_price) == -((-amount) \div current_price)

\* math.floor(dollar_amount / current_price), current_price > 0
floor_div(amount, current_price) == amount \div current_price

\* place_dollar_amount_order: quote, size, submit. The record adds the price
\* used and the quantity computed from it (the local calculated_quantity).
place_dollar_amount_order(amount, order_instruction, q, resp) ==
    IF amount <= 0 THEN Raise(0, None) @@ [price |-> None, computed |-> None]
    ELSE LET qr == get_quote(q)
         IN IF qr.raised THEN Raise(0, None) @@ [price |-> None, computed |-> None]
            ELSE LET calculated_quantity == floor_div(amount, qr.price[1])
                     sized == [price |-> qr.price, computed |-> Some(calculated_quantity)]
                 IN IF calculated_quantity <= 0 THEN Raise(0, None) @@ sized
                    ELSE LET out == place_order_internal(calculated_quantity,
                                                             order_instruction, resp)
                         IN IF out.raised THEN out @@ sized
                            ELSE [out EXCEPT !.quantity = Some(calculated_quantity)] @@ sized

\* execute_schwab_trade: returns (order_id, calculated_quantity), or (None, 0)
\* for every exception; it never raises. The field state keeps the engine's
\* terminal state, which the returned pair does not carry.
execute_schwab_trade(amount, order_instruction, q, resp) ==
    IF upper(order_instruction) = "BUY"
    THEN LET out == place_dollar_amount_order(amount, order_instruction, q, resp)
         IN IF out.raised
            THEN [out EXCEPT !.raised = FALSE, !.order_id = None, !.quantity = Some(0)]
                 @@ [state |-> "Failed"]
            ELSE out @@ [state |-> EngineState(out)]
    ELSE Return(None, Some(0), 0, None)
         @@ [price |-> None, computed |-> None, state |-> "Failed"]

\* execute_sell_trade: the quote and the sizing happen before the try block,
\* so a quote failure escapes; the submission is SELL_SHORT and every
\* exception of it yields None.
execute_sell_trade(amount, q, resp) ==
    LET qr == get_quote(q)
    IN IF qr.raised
       THEN Raise(0, None) @@ [price |-> None, computed |-> None, state |-> "Failed"]
       ELSE LET calculated_quantity == floor_div(amount, qr.price[1])
                sized == [price |-> qr.price, computed |-> Some(calculated_quantity)]
                out == place_order_internal(calculated_quantity, "SELL_SHORT", resp)
            IN IF out.raised
               THEN [out EXCEPT !.raised = FALSE] @@ sized @@ [state |-> "Failed"]
               ELSE out @@ sized @@ [state |-> EngineState(out)]

\* The engine's record before any trade was attempted.
NoResult ==
    [raised |-> FALSE, order_id |-> None, quantity |-> None, calls |-> 0,
     order |-> None, price |-> None, computed |-> None, state |-> "NotRun"]

\* ------------------------------------------------------- the pipeline
\* The broker and quote answers the pipeline is run against.
PipelineResponses ==
    { r \in BrokerResponses :
        /\ r.status \in {200, 500}
        /\ r.location \in {None, Some(<<"/", "7">>), Some(<<"x">>)} }
PipelineQuotes ==
    { q \in Quotes : q.last = None /\ q.ask \in {Some(0), Some(33333), Some(100001)} }

\* What analyze_tariff_firmness hands back: None (no usable answer) or a
\* dictionary with one of the four directions.
FirmnessResults == {"None", "More Firm", "Less Firm", "Unchanged", "Unclear"}

\* service.main: ticker = 'SPY', the instrument of every order it places.
ticker == "SPY"

\* service.main: the suggestion of the Decision Policy for the item. The calls
\* of send_to_llm and get_trade_suggestion are commented out, so main holds
\* none.
suggestion == None

VARIABLES
    file,            \* the persisted dedup file SEEN_TWEETS_FILE
    seen_tweets,     \* chrome_scrapper.main: the in-memory set
    pc,              \* where the process is: boot, poll, classify, trade, notify, done, dead
    run,             \* the number of this process run
    polls,           \* chrome_scrapper.main: loop iterations so far that found nothing new
    cur,             \* service.main: tweet_text, 0 while there is none
    tradingReady,    \* service.main: schwab_client and account_hash
    firmness,        \* service.main: tariff_firmness_result's direction
    action,          \* service.main: action
    result,          \* what the engine call of this run left behind
    orderPlaceCalls, \* client.order_place calls made in this run
    notified,        \* service.main: success, the notifier's answer
    classifierCalls, \* classifier calls made in this run
    everWritten,     \* history: the fingerprints a completed save has written
    curWasCommitted, \* history: cur was in everWritten when it was polled
    absentAtStart,   \* history: the file was absent when this run started
    loadRaised,      \* history: load_seen_tweets raised in this run
    saveOutcome,     \* history: how the save of this run ended, "none" before it
    ordered,         \* history: the texts client.order_place was called for, all runs
    secondCall,      \* history: this run's order was placed for a text already in ordered
    quotes,          \* history: the answers of this run's client.quote calls, in order
    scraped,         \* history: the text the last poll of this run scraped, 0 for no text
    in,              \* the arguments of a function applied on its own
    out              \* and what it returned

vars ==
    << file, seen_tweets, pc, run, polls, cur, tradingReady, firmness, action, result,
       orderPlaceCalls, notified, classifierCalls, everWritten, curWasCommitted,
       absentAtStart, loadRaised, saveOutcome, ordered, secondCall, quotes, scraped, in, out >>

NoInput == [f |-> "none"]

\* A process that has just been started.
Fresh ==
    /\ seen_tweets = {}
    /\ polls = 0
    /\ cur = 0
    /\ tradingReady = FALSE
    /\ firmness = "NotRun"
    /\ action = "NotRun"
    /\ result = NoResult
    /\ orderPlaceCalls = 0
    /\ notified = None
    /\ classifierCalls = 0
    /\ curWasCommitted = FALSE
    /\ loadRaised = FALSE
    /\ saveOutcome = "none"
    /\ secondCall = FALSE
    /\ quotes = <<>>
    /\ scraped = None

Init ==
    /\ file \in InitialFiles
    /\ pc = "boot"
    /\ run = 1
    /\ Fresh
    /\ everWritten = IF file.kind = "list" THEN Range(file.items) ELSE {}
    /\ ordered = {}
    /\ absentAtStart = (file.kind = "absent")
    /\ in = NoInput
    /\ out = NoResult

\* service.main up to the call of chrome_scrapper.main, and chrome_scrapper.main
\* up to its loop: the broker client is set up (a failure only disables
\* trading), the driver is set up (a failure exits the process), the dedup
\* file is loaded (outside every try of chrome_scrapper.main, so an exception
\* ends it and is caught in service.main) and the login is attempted.
Boot ==
    /\ pc = "boot"
    /\ \E ready \in BOOLEAN, outcome \in {"ok", "login_failed", "driver_failed"} :
         LET loaded == load_seen_tweets(file)
         IN /\ tradingReady' = ready
            /\ IF outcome = "driver_failed"
               THEN /\ pc' = "done"
                    /\ UNCHANGED << seen_tweets, loadRaised >>
               ELSE IF loaded.raised
               THEN /\ pc' = "done"
                    /\ loadRaised' = TRUE
                    /\ UNCHANGED seen_tweets
               ELSE /\ seen_tweets' = loaded.set
                    /\ pc' = IF outcome = "ok" THEN "poll" ELSE "done"
                    /\ UNCHANGED loadRaised
    /\ UNCHANGED << file, run, polls, cur, firmness, action, result, orderPlaceCalls,
                    notified, classifierCalls, everWritten, curWasCommitted,
                    absentAtStart, saveOutcome, ordered, secondCall, quotes, scraped, in, out >>

\* One loop iteration that finds a new tweet: it is printed, added to
\* seen_tweets, the set is saved, and chrome_scrapper.main returns the text to
\* service.main. A process killed while saving leaves the torn file.
PollNew ==
    /\ pc = "poll"
    /\ \E current_tweet_text \in 0..MaxTexts, outcome \in SaveOutcomes :
         /\ is_new(current_tweet_text, seen_tweets)
         /\ seen_tweets' = seen_tweets \cup {current_tweet_text}
         /\ file' \in save_seen_tweets(seen_tweets', file, outcome)
         /\ everWritten' = IF outcome = "ok" THEN everWritten \cup seen_tweets'
                           ELSE everWritten
         /\ curWasCommitted' = (current_tweet_text \in everWritten)
         /\ cur' = current_tweet_text
         /\ scraped' = Some(current_tweet_text)
         /\ saveOutcome' = outcome
         /\ pc' = IF outcome = "killed" THEN "dead" ELSE "classify"
    /\ polls' = 0
    /\ UNCHANGED << run, tradingReady, firmness, action, result, orderPlaceCalls,
                    notified, classifierCalls, absentAtStart, loadRaised, ordered, secondCall, quotes, in, out >>

\* One loop iteration that finds no text or a text already seen: the active
\* wait, the refresh, and the next iteration.
PollOld ==
    /\ pc = "poll"
    /\ polls < MaxPolls
    /\ \E current_tweet_text \in 0..MaxTexts :
         /\ ~is_new(current_tweet_text, seen_tweets)
         /\ scraped' = Some(current_tweet_text)
    /\ polls' = polls + 1
    /\ UNCHANGED << file, seen_tweets, pc, run, cur, tradingReady, firmness, action,
                    result, orderPlaceCalls, notified, classifierCalls, everWritten,
                    curWasCommitted, absentAtStart, loadRaised, saveOutcome, ordered, secondCall, quotes, in, out >>

\* Ctrl+C in the loop: the loop breaks, chrome_scrapper.main returns None and
\* service.main ends.
Interrupt ==
    /\ pc = "poll"
    /\ pc' = "done"
    /\ polls' = 0
    /\ UNCHANGED << file, seen_tweets, run, cur, tradingReady, firmness, action,
                    result, orderPlaceCalls, notified, classifierCalls, everWritten,
                    curWasCommitted, absentAtStart, loadRaised, saveOutcome, ordered, secondCall, quotes, scraped, in, out >>

\* service.main choosing the opposite side for each direction.
Classify_swapped ==
    /\ pc = "classify"
    /\ \E tariff_firmness_result \in FirmnessResults :
         /\ firmness' = tariff_firmness_result
         /\ classifierCalls' = classifierCalls + 1
         /\ IF tariff_firmness_result = "None"
            THEN /\ pc' = "done"
                 /\ UNCHANGED action
            ELSE /\ pc' = "trade"
                 /\ action' = CASE tariff_firmness_result = "More Firm" -> "BUY"
                                [] tariff_firmness_result = "Less Firm" -> "SELL"
                                [] OTHER -> "N/A"
    /\ UNCHANGED << file, seen_tweets, run, polls, cur, tradingReady, result,
                    orderPlaceCalls, notified, everWritten, curWasCommitted,
                    absentAtStart, loadRaised, saveOutcome, ordered, secondCall, quotes, scraped, in, out >>

\* service.main: the classifier call and the choice of the action. A None
\* answer makes the subscript raise TypeError, caught at the end of main.
Classify ==
    /\ pc = "classify"
    /\ \E tariff_firmness_result \in FirmnessResults :
         /\ firmness' = tariff_firmness_result
         /\ classifierCalls' = classifierCalls + 1
         /\ IF tariff_firmness_result = "None"
            THEN /\ pc' = "done"
                 /\ UNCHANGED action
            ELSE /\ pc' = "trade"
                 /\ action' = CASE tariff_firmness_result = "More Firm" -> "SELL"
                                [] tariff_firmness_result = "Less Firm" -> "BUY"
                                [] OTHER -> "N/A"
    /\ UNCHANGED << file, seen_tweets, run, polls, cur, tradingReady, result,
                    orderPlaceCalls, notified, everWritten, curWasCommitted,
                    absentAtStart, loadRaised, saveOutcome, ordered, secondCall, quotes, scraped, in, out >>

\* service.main: the trade. A BUY goes through execute_schwab_trade, a SELL
\* through execute_sell_trade, whose quote failure escapes to the end of main
\* past the notification.
Trade ==
    /\ pc = "trade"
    /\ IF tradingReady /\ action # "N/A"
       THEN \E q \in PipelineQuotes, resp \in PipelineResponses :
              /\ result' = IF action = "BUY"
                           THEN execute_schwab_trade(dollar_amount, "BUY", q, resp)
                           ELSE execute_sell_trade(dollar_amount, q, resp)
              /\ orderPlaceCalls' = orderPlaceCalls + result'.calls
              /\ ordered' = IF result'.calls > 0 THEN ordered \cup {cur} ELSE ordered
              /\ secondCall' = (result'.calls > 0 /\ cur \in ordered)
              /\ quotes' = Append(quotes, q)
              /\ pc' = IF result'.raised THEN "done" ELSE "notify"
       ELSE /\ pc' = "notify"
            /\ UNCHANGED << result, orderPlaceCalls, ordered, secondCall, quotes >>
    /\ UNCHANGED << file, seen_tweets, run, polls, cur, tradingReady, firmness, action,
                    notified, classifierCalls, everWritten, curWasCommitted,
                    absentAtStart, loadRaised, saveOutcome, scraped, in, out >>

\* service.main: the notification, whose boolean answer ends the run.
Notify ==
    /\ pc = "notify"
    /\ \E success \in BOOLEAN : notified' = Some(success)
    /\ pc' = "done"
    /\ UNCHANGED << file, seen_tweets, run, polls, cur, tradingReady, firmness, action,
                    result, orderPlaceCalls, classifierCalls, everWritten,
                    curWasCommitted, absentAtStart, loadRaised, saveOutcome, ordered, secondCall, quotes, scraped, in, out >>

\* The process is killed between two steps: what it held in memory is gone.
Crash ==
    /\ pc \in {"poll", "classify", "trade", "notify"}
    /\ pc' = "dead"
    /\ seen_tweets' = {}
    /\ polls' = 0
    /\ cur' = 0
    /\ tradingReady' = FALSE
    /\ firmness' = "NotRun"
    /\ action' = "NotRun"
    /\ result' = NoResult
    /\ orderPlaceCalls' = 0
    /\ notified' = None
    /\ classifierCalls' = 0
    /\ curWasCommitted' = FALSE
    /\ loadRaised' = FALSE
    /\ saveOutcome' = "none"
    /\ secondCall' = FALSE
    /\ quotes' = <<>>
    /\ scraped' = None
    /\ UNCHANGED << file, run, everWritten, absentAtStart, ordered, in, out >>

\* The operator starts the process again: only the file survives.
Restart ==
    /\ pc \in {"done", "dead"}
    /\ run < MaxRuns
    /\ run' = run + 1
    /\ pc' = "boot"
    /\ seen_tweets' = {}
    /\ polls' = 0
    /\ cur' = 0
    /\ tradingReady' = FALSE
    /\ firmness' = "NotRun"
    /\ action' = "NotRun"
    /\ result' = NoResult
    /\ orderPlaceCalls' = 0
    /\ notified' = None
    /\ classifierCalls' = 0
    /\ curWasCommitted' = FALSE
    /\ loadRaised' = FALSE
    /\ saveOutcome' = "none"
    /\ secondCall' = FALSE
    /\ quotes' = <<>>
    /\ scraped' = None
    /\ absentAtStart' = (file.kind = "absent")
    /\ UNCHANGED << file, everWritten, ordered, in, out >>

Next ==
    \/ Boot
    \/ PollNew
    \/ PollOld
    \/ Interrupt
    \/ Classify
    \/ Trade
    \/ Notify
    \/ Crash
    \/ Restart

Spec == Init /\ [][Next]_vars

\* ------------------------------------------- the engine's functions alone
\* Each function of the engine applied once to arguments drawn from bounded
\* sets: in holds the arguments, out what the function left behind.
Amounts == {-100, 0, 10, 50000, dollar_amount}
NoQuote == [ok |-> FALSE, ask |-> None, last |-> None]

Input(f, amount, instruction, quantity, q, resp) ==
    [f |-> f, amount |-> amount, instruction |-> instruction, quantity |-> quantity,
     q |-> q, resp |-> resp, applied |-> FALSE]

SubmitInputs ==
    { Input("place_order_internal", 0, i, n, NoQuote, r) :
        i \in {"BUY", "buy", "SELL_SHORT"}, n \in {-1, 0, 3}, r \in BrokerResponses }
SizeInputs ==
    { Input("place_dollar_amount_order", a, "BUY", 0, q, r) :
        a \in Amounts, q \in Quotes, r \in PipelineResponses }
BuyInputs ==
    { Input("execute_schwab_trade", dollar_amount, i, 0, q, r) :
        i \in {"BUY", "buy", "SELL"}, q \in Quotes, r \in PipelineResponses }
SellInputs ==
    { Input("execute_sell_trade", a, "SELL", 0, q, r) :
        a \in Amounts, q \in Quotes, r \in PipelineResponses }
NoResponse == [transport_ok |-> FALSE, status |-> 500, location |-> None]
QuoteInputs ==
    { Input("get_quote", 0, "BUY", 0, q, NoResponse) : q \in Quotes }

InitEngine ==
    /\ file = AbsentFile
    /\ pc = "boot"
    /\ run = 1
    /\ Fresh
    /\ everWritten = {}
    /\ ordered = {}
    /\ absentAtStart = TRUE
    /\ in \in SubmitInputs \cup SizeInputs \cup BuyInputs \cup SellInputs \cup QuoteInputs
    /\ out = NoResult

pipelineVars ==
    << file, seen_tweets, pc, run, polls, cur, tradingReady, firmness, action, result,
       orderPlaceCalls, notified, classifierCalls, everWritten, curWasCommitted,
       absentAtStart, loadRaised, saveOutcome, ordered, secondCall, quotes, scraped >>

ApplySubmit ==
    /\ in.f = "place_order_internal" /\ ~in.applied
    /\ LET r == place_order_internal(in.quantity, in.instruction, in.resp)
       IN out' = r @@ [price |-> None, computed |-> None, state |-> EngineState(r)]
    /\ in' = [in EXCEPT !.applied = TRUE]
    /\ UNCHANGED pipelineVars

ApplySize ==
    /\ in.f = "place_dollar_amount_order" /\ ~in.applied
    /\ LET r == place_dollar_amount_order(in.amount, in.instruction, in.q, in.resp)
       IN out' = r @@ [state |-> EngineState(r)]
    /\ in' = [in EXCEPT !.applied = TRUE]
    /\ UNCHANGED pipelineVars

ApplyBuy ==
    /\ in.f = "execute_schwab_trade" /\ ~in.applied
    /\ out' = execute_schwab_trade(in.amount, in.instruction, in.q, in.resp)
    /\ in' = [in EXCEPT !.applied = TRUE]
    /\ UNCHANGED pipelineVars

ApplySell ==
    /\ in.f = "execute_sell_trade" /\ ~in.applied
    /\ out' = execute_sell_trade(in.amount, in.q, in.resp)
    /\ in' = [in EXCEPT !.applied = TRUE]
    /\ UNCHANGED pipelineVars

\* get_quote on its own: out keeps whether it raised and the price returned.
ApplyQuote ==
    /\ in.f = "get_quote" /\ ~in.applied
    /\ LET r == get_quote(in.q)
       IN out' = [NoResult EXCEPT !.raised = r.raised, !.price = r.price]
    /\ in' = [in EXCEPT !.applied = TRUE]
    /\ UNCHANGED pipelineVars

NextEngine ==
    \/ ApplyQuote
    \/ ApplySubmit
    \/ ApplySize
    \/ ApplyBuy
    \/ ApplySell

SpecEngine == InitEngine /\ [][NextEngine]_vars

\* ------------------------------------------------------ the repository
\* The values json.loads hands back, other than None: a dictionary (items is
\* a function from its keys to strings), a number, a string or a list of
\* strings. JSON null is None.
Dict(items) == [kind |-> "dict", items |-> items]
Number(n) == [kind |-> "number", n |-> n]
Str(s) == [kind |-> "str", s |-> s]
List(elems) == [kind |-> "list", elems |-> elems]
EmptyItems == [k \in {} |-> ""]

\* A variant of truthy that takes every value for false.
truthy_never(v) == FALSE

\* The truth value of a value other than None, as if v and not v read it.
truthy(v) ==
    CASE v.kind = "dict" -> DOMAIN v.items # {}
      [] v.kind = "number" -> v.n # 0
      [] v.kind = "str" -> v.s # ""
      [] v.kind = "list" -> v.elems # <<>>

\* key in v: a key of a dictionary, an element of a list, a substring of a
\* string (the strings here are words none of which lies inside another, so a
\* substring is the whole word); for a number it raises TypeError.
in_raises(v) == v.kind = "number"
contains(v, key) ==
    CASE v.kind = "dict" -> key \in DOMAIN v.items
      [] v.kind = "list" -> \E i \in 1..Len(v.elems) : v.elems[i] = key
      [] v.kind = "str" -> v.s = key
      [] OTHER -> FALSE

\* v[key] where key in v holds: the item of a dictionary; TypeError for a
\* string or a list, which take no string index.
subscript_raises(v) == v.kind # "dict"

\* A text is a sequence of tokens: a blank, a code fence (three backticks),
\* the word json, a
\* word that is no JSON, or a complete JSON document with the value it
\* denotes (None for null, else Some(v)).
Tok(t) == [tok |-> t, value |-> None]
DocTok(v) == [tok |-> "doc", value |-> v]
Blank == Tok(" ")
Fence == Tok("fence")
JsonWord == Tok("json")
Word == Tok("x")

\* A variant of strip that leaves the text as it is.
strip_nothing(s) == s

\* str.strip(): without the blanks at both ends.
strip(s) ==
    LET kept == { i \in 1..Len(s) : s[i] # Blank }
    IN IF kept = {} THEN <<>>
       ELSE SubSeq(s, CHOOSE i \in kept : \A j \in kept : i <= j,
                      CHOOSE i \in kept : \A j \in kept : j <= i)

\* A variant of json_loads that accepts a document inside code fences.
json_loads_lenient(s) ==
    LET docs == { i \in 1..Len(s) : s[i].tok = "doc" }
    IN IF docs # {}
       THEN [raised |-> FALSE, value |-> s[CHOOSE i \in docs : TRUE].value]
       ELSE [raised |-> TRUE, value |-> None]

\* json.loads(s): the value of the one document of s, blanks around it
\* allowed; JSONDecodeError for everything else, the empty text included.
json_loads(s) ==
    LET t == strip(s)
    IN IF Len(t) = 1 /\ t[1].tok = "doc"
       THEN [raised |-> FALSE, value |-> t[1].value]
       ELSE [raised |-> TRUE, value |-> None]

\* s.startswith, for a fence with the word json and for a fence alone, and
\* s.endswith for a fence
startswith_fence_json(s) == Len(s) >= 2 /\ s[1] = Fence /\ s[2] = JsonWord
startswith_fence(s) == Len(s) >= 1 /\ s[1] = Fence
endswith_fence(s) == Len(s) >= 1 /\ s[Len(s)] = Fence

\* What is left of a stripped text once its fences are taken off.
strip_fences(response_stripped) ==
    LET body == IF startswith_fence_json(response_stripped)
                THEN SubSeq(response_stripped, 3, Len(response_stripped))
                ELSE IF startswith_fence(response_stripped)
                THEN SubSeq(response_stripped, 2, Len(response_stripped))
                ELSE response_stripped
        fenced == startswith_fence(response_stripped)
    IN IF fenced /\ endswith_fence(body) THEN SubSeq(body, 1, Len(body) - 1) ELSE body

\* _parse_llm_json_response: None for no text; the value of a direct parse;
\* after a JSONDecodeError the text is stripped, its fences are taken off, it
\* is stripped again and parsed a second time, with None when that fails or
\* nothing is left. attempts counts the json.loads calls. It never raises.
\* The value is None or Some(v).
Parsed(value, attempts) == [value |-> value, attempts |-> attempts]
NotParsed(attempts) == [value |-> None, attempts |-> attempts]

_parse_llm_json_response(response_text) ==
    IF response_text = None THEN NotParsed(0)
    ELSE LET first == json_loads(response_text[1])
         IN IF ~first.raised THEN Parsed(first.value, 1)
            ELSE LET response_stripped == strip(strip_fences(strip(response_text[1])))
                 IN IF response_stripped # <<>>
                    THEN LET second == json_loads(response_stripped)
                         IN IF ~second.raised THEN Parsed(second.value, 2)
                            ELSE NotParsed(2)
                    ELSE NotParsed(1)

\* LLMRepository.__init__: the instance keeps the mapping table as loaded
\* (empty when the file is missing or no JSON) and its keys as the valid
\* countries. No method assigns to either afterwards.
LLMRepository(mapping) ==
    [ticker_mapping |-> mapping, valid_countries |-> DOMAIN mapping]

\* What a method of the repository leaves behind:
\*   raised  an exception escapes to the caller
\*   ret     what it returns, None or Some(value)
\*   sent    the number of _generate_raw_response calls it made
Returned(ret, sent) == [raised |-> FALSE, ret |-> ret, sent |-> sent]
Raised(sent) == [raised |-> TRUE, ret |-> None, sent |-> sent]

\* analyze_tweet_sentiment. response_text is what _generate_raw_response hands
\* back for the request: None for every failure of the call, else the text.
analyze_tweet_sentiment(self, tweet_text, response_text) ==
    LET cleaned_text == strip(tweet_text)
    IN IF cleaned_text = <<>> THEN Returned(None, 0)
       ELSE LET parsed_response == _parse_llm_json_response(response_text).value
            IN IF parsed_response = None THEN Returned(None, 1)
               ELSE LET v == parsed_response[1]
                    IN IF ~truthy(v) THEN Returned(parsed_response, 1)
                       ELSE IF in_raises(v) THEN Raised(1)
                       ELSE IF ~contains(v, "country_reference")
                            THEN Returned(parsed_response, 1)
                       ELSE IF subscript_raises(v) THEN Raised(1)
                       ELSE LET country == v.items["country_reference"]
                            IN IF country # "N/A" /\ country \notin self.valid_countries
                               THEN Returned(Some(Dict([v.items EXCEPT
                                                          !["country_reference"] = "N/A"])), 1)
                               ELSE Returned(parsed_response, 1)

\* analyze_tariff_firmness: the same guard on the text, then whatever the
\* parse gives.
analyze_tariff_firmness(self, tweet_text, response_text) ==
    LET cleaned_text == strip(tweet_text)
    IN IF cleaned_text = <<>> THEN Returned(None, 0)
       ELSE Returned(_parse_llm_json_response(response_text).value, 1)

required_keys == {"country_reference", "tariff_sentiment_change", "reasoning"}

\* The dictionaries analyze_tweet_reasoning returns, without the explanation
\* text.
Suggestion(t, a, c) == Dict([ticker |-> t, action |-> a, confidence |-> c])
NotActionable == Suggestion("N/A", "N/A", "N/A")

\* A variant of analyze_tweet_reasoning that sends a request to the model for
\* the signals it does not turn down.
analyze_tweet_reasoning_asking(self, sentiment_analysis, requests) ==
    IF sentiment_analysis = None \/ sentiment_analysis[1].kind # "dict"
    THEN Returned(None, 0)
    ELSE LET d == sentiment_analysis[1].items
         IN IF ~(required_keys \subseteq DOMAIN d) THEN Returned(None, 0)
            ELSE IF d["tariff_sentiment_change"] \in {"Unclear", "Unchanged"}
                    \/ d["country_reference"] = "N/A"
                 THEN Returned(Some(NotActionable), 0)
                 ELSE Returned(Some(Suggestion("F", "BUY", "Medium")), 1)

\* A variant of analyze_tweet_reasoning whose answer depends on the requests
\* the instance has sent before.
analyze_tweet_reasoning_stateful(self, sentiment_analysis, requests) ==
    IF sentiment_analysis = None \/ sentiment_analysis[1].kind # "dict"
    THEN Returned(None, 0)
    ELSE LET d == sentiment_analysis[1].items
         IN IF ~(required_keys \subseteq DOMAIN d) THEN Returned(None, 0)
            ELSE IF requests > 0 THEN Returned(Some(NotActionable), 0)
                 ELSE Returned(Some(Suggestion("F", "BUY", "Medium")), 0)

\* analyze_tweet_reasoning: a lookup in self.ticker_mapping. requests is the
\* number of requests the instance has sent so far, which the code never
\* reads.
analyze_tweet_reasoning(self, sentiment_analysis, requests) ==
    IF sentiment_analysis = None \/ sentiment_analysis[1].kind # "dict"
    THEN Returned(None, 0)
    ELSE LET d == sentiment_analysis[1].items
         IN IF ~(required_keys \subseteq DOMAIN d) THEN Returned(None, 0)
            ELSE LET country == d["country_reference"]
                     sentiment == d["tariff_sentiment_change"]
                 IN IF sentiment \in {"Unclear", "Unchanged"} \/ country = "N/A"
                       \/ country \notin DOMAIN self.ticker_mapping
                    THEN Returned(Some(NotActionable), 0)
                    ELSE LET mapping_entry == self.ticker_mapping[country]
                         IN IF ~truthy(mapping_entry)
                               \/ ~contains(mapping_entry, "ticker")
                               \/ ~contains(mapping_entry, "action")
                            THEN Returned(Some(NotActionable), 0)
                            ELSE Returned(Some(Suggestion(mapping_entry.items["ticker"],
                                                          mapping_entry.items["action"],
                                                          "Medium")), 0)

\* A variant of send_to_llm without its try block.
send_to_llm_unguarded(self, text, response_text) ==
    analyze_tweet_sentiment(self, text, response_text) @@ [calls |-> 1]

\* service.send_to_llm: one call of llm_repo.analyze_tweet_sentiment inside a
\* try block; its result is returned, and None when it raised. calls counts
\* the analyze_tweet_sentiment calls.
send_to_llm(self, text, response_text) ==
    LET analysis_result == analyze_tweet_sentiment(self, text, response_text)
    IN IF analysis_result.raised
       THEN [raised |-> FALSE, ret |-> None, sent |-> analysis_result.sent, calls |-> 1]
       ELSE analysis_result @@ [calls |-> 1]

\* ---------------------------------------- the repository's methods alone
\* The mapping tables an instance is built with: each country listed has a
\* complete entry, an entry lacking a key, an empty one or the placeholder.
Countries == {"China", "Mexico"}
CompleteEntry == Dict([ticker |-> "XYZ", action |-> "BUY"])
Entries ==
    { CompleteEntry, Dict([ticker |-> "XYZ"]), Dict([action |-> "BUY"]),
      Dict(EmptyItems), Str("placeholder") }
MappingTables == UNION { [S -> Entries] : S \in SUBSET Countries }

\* The dictionaries the classifier is asked for, and the subjects and
\* directions an answer may name, listed or not.
Signal(country, direction) ==
    Dict([country_reference |-> country, tariff_sentiment_change |-> direction,
          reasoning |-> "r"])
Subjects == Countries \cup {"Atlantis", "N/A"}
Directions == {"Increased", "Decreased", "Unchanged", "Unclear", "Mixed"}

\* The arguments analyze_tweet_reasoning is called with: signals, dictionaries
\* lacking a required key, and values that are no dictionary.
PolicyArgs ==
    { Some(Signal(c, d)) : c \in Subjects, d \in Directions }
    \cup { Some(Dict([country_reference |-> "China"])),
           Some(Dict([country_reference |-> "China", tariff_sentiment_change |-> "Increased"])),
           Some(Dict([tariff_sentiment_change |-> "Increased", reasoning |-> "r"])),
           Some(Number(5)), Some(Str("China")), None }

\* Every text of at most n tokens of T.
TokenTexts(T, n) == UNION { [1..k -> T] : k \in 0..n }

\* The texts of a content item, and the answers of _generate_raw_response:
\* None, or a text that carries a document bare or inside fences, or none.
TweetTexts == TokenTexts({Blank, Word}, MaxTweetLen)
Documents ==
    { Some(Signal(c, "Increased")) : c \in Subjects }
    \cup { Some(Dict([tariff_sentiment_change |-> "Increased", reasoning |-> "r"])),
           Some(Dict(EmptyItems)), Some(Number(5)), Some(Number(0)),
           Some(Str("country_reference")), Some(Str("no")),
           Some(List(<<"country_reference">>)), Some(List(<<"no">>)), None }
Bare(doc) == << DocTok(doc) >>
Fenced(doc) == << Fence, JsonWord, DocTok(doc), Fence >>
ClassifierResponses ==
    {None, Some(<<>>), Some(<< Word >>)}
    \cup { Some(Bare(doc)) : doc \in Documents }
    \cup { Some(Fenced(doc)) : doc \in Documents }
ParseTokens ==
    { Blank, Fence, JsonWord, Word, DocTok(Some(Signal("China", "Increased"))),
      DocTok(Some(Number(5))), DocTok(None) }
ParseResponses ==
    {None} \cup { Some(t) : t \in TokenTexts(ParseTokens, MaxResponseLen) }

Call(f, self, sentiment_analysis, tweet_text, response_text) ==
    [f |-> f, self |-> self, sentiment_analysis |-> sentiment_analysis,
     tweet_text |-> tweet_text, response_text |-> response_text, applied |-> FALSE]
NoTable == LLMRepository(EmptyItems)

ParseInputs ==
    { Call("_parse_llm_json_response", NoTable, None, <<>>, r) : r \in ParseResponses }
SentimentInputs ==
    { Call("analyze_tweet_sentiment", LLMRepository(m), None, t, r) :
        m \in MappingTables, t \in TweetTexts, r \in ClassifierResponses }
FirmnessInputs ==
    { Call("analyze_tariff_firmness", NoTable, None, t, r) :
        t \in TweetTexts, r \in ClassifierResponses }
SendInputs ==
    { Call("send_to_llm", LLMRepository(m), None, t, r) :
        m \in MappingTables, t \in TweetTexts, r \in ClassifierResponses }
ReasoningInputs ==
    { Call("analyze_tweet_reasoning", LLMRepository(m), sa, <<>>, None) :
        m \in MappingTables, sa \in PolicyArgs }

\* What a call left behind, before any call: attempts is the number of
\* json.loads calls of a parse applied on its own.
NoReturn == [raised |-> FALSE, ret |-> None, sent |-> 0, attempts |-> 0]

InitRepo ==
    /\ file = AbsentFile
    /\ pc = "boot"
    /\ run = 1
    /\ Fresh
    /\ everWritten = {}
    /\ ordered = {}
    /\ absentAtStart = TRUE
    /\ in \in ParseInputs \cup SentimentInputs \cup FirmnessInputs \cup ReasoningInputs
               \cup SendInputs
    /\ out = NoReturn

ApplyParse ==
    /\ in.f = "_parse_llm_json_response" /\ ~in.applied
    /\ LET r == _parse_llm_json_response(in.response_text)
       IN out' = [raised |-> FALSE, ret |-> r.value, sent |-> 0, attempts |-> r.attempts]
    /\ in' = [in EXCEPT !.applied = TRUE]
    /\ UNCHANGED pipelineVars

ApplySentiment ==
    /\ in.f = "analyze_tweet_sentiment" /\ ~in.applied
    /\ out' = analyze_tweet_sentiment(in.self, in.tweet_text, in.response_text)
                @@ [attempts |-> 0]
    /\ in' = [in EXCEPT !.applied = TRUE]
    /\ UNCHANGED pipelineVars

ApplyFirmness ==
    /\ in.f = "analyze_tariff_firmness" /\ ~in.applied
    /\ out' = analyze_tariff_firmness(in.self, in.tweet_text, in.response_text)
                @@ [attempts |-> 0]
    /\ in' = [in EXCEPT !.applied = TRUE]
    /\ UNCHANGED pipelineVars

ApplyReasoning ==
    /\ in.f = "analyze_tweet_reasoning" /\ ~in.applied
    /\ out' = analyze_tweet_reasoning(in.self, in.sentiment_analysis, 0) @@ [attempts |-> 0]
    /\ in' = [in EXCEPT !.applied = TRUE]
    /\ UNCHANGED pipelineVars

ApplySend ==
    /\ in.f = "send_to_llm" /\ ~in.applied
    /\ out' = send_to_llm(in.self, in.tweet_text, in.response_text) @@ [attempts |-> 0]
    /\ in' = [in EXCEPT !.applied = TRUE]
    /\ UNCHANGED pipelineVars

NextRepo ==
    \/ ApplySend
    \/ ApplyParse
    \/ ApplySentiment
    \/ ApplyFirmness
    \/ ApplyReasoning

SpecRepo == InitRepo /\ [][NextRepo]_vars

\* ------------------------------------- one instance called again and again
\* An instance is built once and its methods are then called in any order, at
\* most MaxCalls times. out keeps the last call (method, argument of the
\* policy, result), the number of calls and of requests sent so far, and
\* first, the argument and result of the first call of the policy.
PolicyTables == { m \in MappingTables : DOMAIN m \subseteq {"China"} }
PolicyTweets == { <<>>, << Word >> }
PolicyResponses ==
    { None, Some(Bare(Some(Signal("China", "Increased")))), Some(Bare(Some(Number(5)))) }

NoCall ==
    [calls |-> 0, requests |-> 0, f |-> "none", sentiment_analysis |-> None,
     raised |-> FALSE, ret |-> None, first |-> None]

InitPolicy ==
    /\ file = AbsentFile
    /\ pc = "boot"
    /\ run = 1
    /\ Fresh
    /\ everWritten = {}
    /\ ordered = {}
    /\ absentAtStart = TRUE
    /\ in \in { [f |-> "LLMRepository", self |-> LLMRepository(m)] : m \in PolicyTables }
    /\ out = NoCall

After(f, sentiment_analysis, r) ==
    [calls |-> out.calls + 1, requests |-> out.requests + r.sent, f |-> f,
     sentiment_analysis |-> sentiment_analysis, raised |-> r.raised, ret |-> r.ret,
     first |-> out.first]

CallReasoning ==
    /\ out.calls < MaxCalls
    /\ \E sa \in PolicyArgs :
         LET r == analyze_tweet_reasoning(in.self, sa, out.requests)
         IN out' = [After("analyze_tweet_reasoning", sa, r) EXCEPT
                      !.first = IF out.first = None
                                THEN Some([sentiment_analysis |-> sa, ret |-> r.ret])
                                ELSE out.first]
    /\ UNCHANGED << in, pipelineVars >>

CallSentiment ==
    /\ out.calls < MaxCalls
    /\ \E t \in PolicyTweets, response_text \in PolicyResponses :
         out' = After("analyze_tweet_sentiment", None,
                      analyze_tweet_sentiment(in.self, t, response_text))
    /\ UNCHANGED << in, pipelineVars >>

CallFirmness ==
    /\ out.calls < MaxCalls
    /\ \E t \in PolicyTweets, response_text \in PolicyResponses :
         out' = After("analyze_tariff_firmness", None,
                      analyze_tariff_firmness(in.self, t, response_text))
    /\ UNCHANGED << in, pipelineVars >>

NextPolicy ==
    \/ CallReasoning
    \/ CallSentiment
    \/ CallFirmness

SpecPolicy == InitPolicy /\ [][NextPolicy]_vars

\* ------------------------------------------------------------ the notifier
\* The environment of the notifier (whether PUSHOVER_API_TOKEN and
\* PUSHOVER_USER_KEY are set and not empty), the messages, and the answers of
\* requests.post: the transport may fail (a RequestException), else there is
\* an HTTP status and a body.
NotifierEnvs == [api_token : BOOLEAN, user_key : BOOLEAN]
Messages == {"", "m"}
Bodies ==
    { "not_json",       \* response.json() raises
      "array",          \* JSON, but no object: .get raises AttributeError
      "status_1",       \* {"status": 1, "request": ...}
      "status_0",       \* {"status": 0, "errors": [...]}
      "status_0_errors_5", \* {"status": 0, "errors": 5}: join raises TypeError
      "status_text",    \* {"status": "1"}
      "no_status" }     \* {}
PushoverResponses == [transport_ok : BOOLEAN, status : {200, 400, 500}, body : Bodies]

\* What send_pushover_notification leaves behind: whether it raised, the
\* boolean returned, and the number of requests.post calls.
Sent(ret, posts) == [raised |-> FALSE, ret |-> ret, posts |-> posts]
Escaped(posts) == [raised |-> TRUE, ret |-> FALSE, posts |-> posts]

\* A variant of send_pushover_notification that takes every answer with a
\* good HTTP status for a success and lets a transport error escape.
send_pushover_notification_trusting(env, message, resp) ==
    IF ~env.api_token \/ ~env.user_key \/ message = "" THEN Sent(FALSE, 0)
    ELSE IF ~resp.transport_ok THEN Escaped(1)
    ELSE Sent(~raise_for_status(resp.status), 1)

\* send_pushover_notification: False without a request for a missing token,
\* a missing user key or an empty message; then one requests.post inside a
\* try block whose handlers (RequestException, Exception) return False.
send_pushover_notification(env, message, resp) ==
    IF ~env.api_token THEN Sent(FALSE, 0)
    ELSE IF ~env.user_key THEN Sent(FALSE, 0)
    ELSE IF message = "" THEN Sent(FALSE, 0)
    ELSE IF ~resp.transport_ok THEN Sent(FALSE, 1)
    ELSE IF raise_for_status(resp.status) THEN Sent(FALSE, 1)
    ELSE CASE resp.body = "not_json" -> Sent(FALSE, 1)
           [] resp.body = "array" -> Sent(FALSE, 1)
           [] resp.body = "status_1" -> Sent(TRUE, 1)
           [] resp.body = "status_0_errors_5" -> Sent(FALSE, 1)
           [] OTHER -> Sent(FALSE, 1)

NotifierInputs ==
    [f : {"send_pushover_notification"}, env : NotifierEnvs, message : Messages,
     resp : PushoverResponses, applied : {FALSE}]

InitNotifier ==
    /\ file = AbsentFile
    /\ pc = "boot"
    /\ run = 1
    /\ Fresh
    /\ everWritten = {}
    /\ ordered = {}
    /\ absentAtStart = TRUE
    /\ in \in NotifierInputs
    /\ out = Sent(FALSE, 0)

ApplyNotification ==
    /\ in.f = "send_pushover_notification" /\ ~in.applied
    /\ out' = send_pushover_notification(in.env, in.message, in.resp)
    /\ in' = [in EXCEPT !.applied = TRUE]
    /\ UNCHANGED pipelineVars

NextNotifier == ApplyNotification

SpecNotifier == InitNotifier /\ [][NextNotifier]_vars

\* ------------------------------------------------ one run, step by step
\* One process from the import of service.py to its exit, with the steps of
\* chrome_scrapper.main's loop (poll, active wait, refresh, cooldown), the
\* steps service.main takes with the returned text, and the thread that
\* quits the browser. in holds the environment the process was started in,
\* out the process.

refresh_interval_min == 15
refresh_interval_max == 30

\* What os.getenv finds: each field says whether the value is set (and, for
\* the broker keys, of the required length).
Environments ==
    [f : {"service"}, GEMINI_API_KEY : BOOLEAN, app_key : BOOLEAN,
     TRUTH_SOCIAL_USERNAME : BOOLEAN]

LoopSteps == {"poll", "wait", "refresh", "cooldown"}
ItemSteps == {"classify", "trade", "submitting", "notify"}

Started ==
    [pc |-> "import", exit |-> None, code |-> 0, cycles |-> 0,
     wait_duration |-> 0, elapsed |-> 0, found_indicator |-> FALSE,
     schwab_client |-> FALSE, action |-> "NotRun",
     commits |-> 0, classified |-> 0, outstanding |-> 0, orders |-> 0,
     notifications |-> 0, quit_thread |-> "none",
     cooldowns |-> 0, raised |-> "none", interrupted |-> "none",
     ended_by |-> "none", check_err |-> FALSE]

InitLoop ==
    /\ file = AbsentFile
    /\ pc = "boot"
    /\ run = 1
    /\ Fresh
    /\ everWritten = {}
    /\ ordered = {}
    /\ absentAtStart = TRUE
    /\ in \in Environments
    /\ out = Started

\* The end of chrome_scrapper.main's try block: the finally clause starts
\* the thread that quits the browser and does not join it.
quit_driver_without_waiting_joined(s) ==
    [s EXCEPT !.quit_thread = "done"]

quit_driver_without_waiting(s) ==
    [s EXCEPT !.quit_thread = "running"]

\* The loop condition of the active wait.
wait_goes_on_late(elapsed, wait_duration) == elapsed < wait_duration + 1

wait_goes_on(elapsed, wait_duration) == elapsed < wait_duration

\* The locals of the active wait are not read after the line that prints how
\* the wait ended.
wait_is_over(s) ==
    [s EXCEPT !.wait_duration = 0, !.elapsed = 0, !.found_indicator = FALSE,
              !.check_err = FALSE]

\* service.py is imported: llm_repo = LLMRepository() authenticates, and a
\* missing GEMINI_API_KEY raises ValueError out of the import.
Import ==
    /\ in.f = "service" /\ out.pc = "import"
    /\ out' = IF in.GEMINI_API_KEY
              THEN [out EXCEPT !.pc = "initialize_client"]
              ELSE [out EXCEPT !.pc = "exited", !.exit = Some(1), !.code = 1,
                               !.ended_by = "setup"]
    /\ UNCHANGED << in, pipelineVars >>

\* service.main: the broker client and the account hash. initialize_client
\* raises ValueError without well-formed keys; every exception is caught and
\* printed, and main goes on without a client.
InitializeClient ==
    /\ in.f = "service" /\ out.pc = "initialize_client"
    /\ \E account_hash \in BOOLEAN :
         out' = [out EXCEPT !.pc = "setup_driver",
                            !.schwab_client = in.app_key /\ account_hash]
    /\ UNCHANGED << in, pipelineVars >>

\* chrome_scrapper.main before its try block: setup_driver exits the process
\* with 1 on failure; load_seen_tweets may raise, which ends
\* chrome_scrapper.main and is caught at the end of service.main.
SetupDriver ==
    /\ in.f = "service" /\ out.pc = "setup_driver"
    /\ \E outcome \in {"ok", "driver_failed", "load_raised"} :
         out' = CASE outcome = "ok" -> [out EXCEPT !.pc = "login"]
                  [] outcome = "driver_failed" ->
                       [out EXCEPT !.pc = "exited", !.exit = Some(1), !.code = 1,
                                   !.ended_by = "setup"]
                  [] OTHER ->
                       [out EXCEPT !.pc = "finishing", !.ended_by = "setup",
                                   !.raised = "setup_driver"]
    /\ UNCHANGED << in, pipelineVars >>

\* The page is opened and login_to_truth_social is called: it returns False
\* without username or password, or when the login does not succeed; main
\* then returns None. An exception is caught by the outer handler. Both
\* ways the finally clause runs.
Login ==
    /\ in.f = "service" /\ out.pc = "login"
    /\ \E outcome \in {"ok", "failed", "raised"} :
         /\ ~in.TRUTH_SOCIAL_USERNAME => outcome = "failed"
         /\ out' = IF outcome = "ok"
                   THEN [out EXCEPT !.pc = "poll"]
                   ELSE quit_driver_without_waiting(
                            [out EXCEPT !.pc = "finishing", !.ended_by = "login",
                                        !.raised = IF outcome = "raised" THEN "login"
                                                   ELSE @])
    /\ UNCHANGED << in, pipelineVars >>

\* The head of one loop iteration: scrape_first_tweet and is_new. A new text
\* is added to seen_tweets, saved and returned (the finally clause runs);
\* otherwise the wait duration is drawn and the active wait starts; an
\* exception goes to the loop's handler.
Poll ==
    /\ in.f = "service" /\ out.pc = "poll" /\ out.cycles < MaxCycles
    /\ \E outcome \in {"new", "not_new", "raised"},
          wait_duration \in refresh_interval_min..refresh_interval_max :
         LET s == [out EXCEPT !.cycles = @ + 1]
         IN out' = CASE outcome = "new" ->
                          quit_driver_without_waiting(
                              [s EXCEPT !.pc = "classify", !.commits = @ + 1,
                                        !.ended_by = "item"])
                     [] outcome = "not_new" ->
                          [s EXCEPT !.pc = "wait", !.wait_duration = wait_duration,
                                    !.elapsed = 0, !.found_indicator = FALSE,
                                    !.check_err = FALSE]
                     [] OTHER ->
                          [s EXCEPT !.pc = "cooldown", !.raised = "poll"]
    /\ UNCHANGED << in, pipelineVars >>

\* One evaluation of the active wait's condition and, while it holds, one
\* pass of its body: find_elements, break when the indicator is there, a
\* check that raises is printed, then time.sleep(1).
WaitTick ==
    /\ in.f = "service" /\ out.pc = "wait"
    /\ \E check \in {"found", "absent", "raised"} :
         out' = IF ~wait_goes_on(out.elapsed, out.wait_duration)
                THEN [out EXCEPT !.pc = "refresh"]
                ELSE IF check = "found"
                THEN [out EXCEPT !.pc = "refresh", !.found_indicator = TRUE]
                ELSE [out EXCEPT !.elapsed = @ + 1,
                                 !.check_err = @ \/ check = "raised"]
    /\ UNCHANGED << in, pipelineVars >>

\* driver.refresh() and the delay after it, then the next iteration; an
\* exception goes to the loop's handler.
Refresh ==
    /\ in.f = "service" /\ out.pc = "refresh"
    /\ \E ok \in BOOLEAN :
         out' = wait_is_over(IF ok THEN [out EXCEPT !.pc = "poll"]
                             ELSE [out EXCEPT !.pc = "cooldown", !.raised = "refresh"])
    /\ UNCHANGED << in, pipelineVars >>

\* The loop's handler for Exception: random_delay(30, 60), then the next
\* iteration.
Cooldown ==
    /\ in.f = "service" /\ out.pc = "cooldown"
    /\ out' = [out EXCEPT !.pc = "poll", !.cooldowns = @ + 1]
    /\ UNCHANGED << in, pipelineVars >>

\* Ctrl+C. In the loop's try block it is caught, the loop breaks and main
\* returns None. In the loop's Exception handler (the cooldown) and in
\* service.main's steps no handler catches KeyboardInterrupt: it leaves
\* asyncio.run and the interpreter ends with 130. The finally clause of
\* chrome_scrapper.main runs both ways when the loop is left. A request
\* already handed to client.order_place stays with its worker thread.
KeyboardInterrupt ==
    /\ in.f = "service" /\ out.pc \in LoopSteps \cup ItemSteps
    /\ LET s == [out EXCEPT !.pc = "finishing", !.interrupted = out.pc,
                            !.ended_by = IF out.pc \in LoopSteps THEN "interrupt" ELSE @,
                            !.code = IF out.pc \in {"poll", "wait", "refresh"}
                                     THEN 0 ELSE 130]
       IN out' = IF out.pc \in LoopSteps
                 THEN quit_driver_without_waiting(wait_is_over(s)) ELSE s
    /\ UNCHANGED << in, pipelineVars >>

\* service.main: analyze_tariff_firmness and the choice of the action. A None
\* answer makes the subscript raise TypeError, caught at the end of main.
ClassifyItem ==
    /\ in.f = "service" /\ out.pc = "classify"
    /\ \E tariff_firmness_result \in FirmnessResults :
         LET s == [out EXCEPT !.classified = @ + 1]
             a == CASE tariff_firmness_result = "More Firm" -> "SELL"
                    [] tariff_firmness_result = "Less Firm" -> "BUY"
                    [] OTHER -> "N/A"
         IN out' = IF tariff_firmness_result = "None"
                   THEN [s EXCEPT !.pc = "finishing", !.raised = "classify"]
                   ELSE [s EXCEPT !.action = a,
                                  !.pc = IF out.schwab_client /\ a # "N/A"
                                         THEN "trade" ELSE "notify"]
    /\ UNCHANGED << in, pipelineVars >>

\* service.main with a trade whose request is sent and not awaited.
TradeItem_not_awaited ==
    /\ in.f = "service" /\ out.pc = "trade"
    /\ out' = [out EXCEPT !.pc = "notify", !.outstanding = @ + 1]
    /\ UNCHANGED << in, pipelineVars >>

\* service.main: the trade up to the request. The quote and the sizing
\* either lead to client.order_place being called, or to no order; an
\* exception of a BUY is caught around the call, one of a SELL at the end
\* of main.
TradeItem ==
    /\ in.f = "service" /\ out.pc = "trade"
    /\ \E outcome \in {"order_place", "no_order", "raised"} :
         out' = CASE outcome = "order_place" ->
                       [out EXCEPT !.pc = "submitting", !.outstanding = @ + 1]
                  [] outcome = "no_order" \/ out.action = "BUY" ->
                       [out EXCEPT !.pc = "notify"]
                  [] OTHER ->
                       [out EXCEPT !.pc = "finishing", !.raised = "trade"]
    /\ UNCHANGED << in, pipelineVars >>

\* place_order_internal: client.order_place answers (or raises); awaited by
\* service.main, which goes on only then.
OrderPlaced ==
    /\ in.f = "service" /\ out.pc = "submitting"
    /\ out' = [out EXCEPT !.pc = "notify", !.outstanding = @ - 1, !.orders = @ + 1]
    /\ UNCHANGED << in, pipelineVars >>

\* service.main: send_pushover_notification, the last step.
NotifyItem ==
    /\ in.f = "service" /\ out.pc = "notify"
    /\ out' = [out EXCEPT !.pc = "finishing", !.notifications = @ + 1]
    /\ UNCHANGED << in, pipelineVars >>

\* asyncio.run returns or lets the exception through and the interpreter
\* exits; a daemon thread still running is abandoned.
Finish ==
    /\ in.f = "service" /\ out.pc = "finishing"
    /\ out' = [out EXCEPT !.pc = "exited", !.exit = Some(out.code),
                          !.quit_thread = IF @ = "running" THEN "abandoned" ELSE @]
    /\ UNCHANGED << in, pipelineVars >>

\* quit_func in its thread: driver.quit() returns or raises, and the
\* exception is printed.
QuitFunc ==
    /\ in.f = "service" /\ out.quit_thread = "running"
    /\ \E ok \in BOOLEAN :
         out' = [out EXCEPT !.quit_thread = IF ok THEN "done" ELSE "failed"]
    /\ UNCHANGED << in, pipelineVars >>

NextLoop ==
    \/ Import
    \/ InitializeClient
    \/ SetupDriver
    \/ Login
    \/ Poll
    \/ WaitTick
    \/ Refresh
    \/ Cooldown
    \/ KeyboardInterrupt
    \/ ClassifyItem
    \/ TradeItem
    \/ OrderPlaced
    \/ NotifyItem
    \/ Finish
    \/ QuitFunc

SpecLoop == InitLoop /\ [][NextLoop]_vars

\* The process keeps running its active wait: time.sleep returns.
SpecLoopFair == SpecLoop /\ WF_vars(WaitTick)

\* ------------------------------------------------ the names of service.py
\* What the module service defines at its top level, and a call of one of
\* its attributes by name, as tests.py makes it.

service_functions == {"send_to_llm", "get_trade_suggestion", "main"}

\* getattr(service, name): the attribute, or None for AttributeError.
service_attr(name) ==
    IF name \in service_functions THEN Some(name) ELSE None

Delimiter == "---END_OF_TWEET_DELIMITER---"
Lines == {"Tweet Line 1", "Tweet Line 2", Delimiter}

RECURSIVE SeqsUpTo(_, _)
SeqsUpTo(S, n) ==
    IF n = 0 THEN {<<>>}
    ELSE LET shorter == SeqsUpTo(S, n - 1)
         IN shorter \cup { Append(s, x) : s \in { t \in shorter : Len(t) = n - 1 }, x \in S }

\* A scraper process whose output is the given lines.
Processes == [stdout : SeqsUpTo(Lines, MaxLines)]

ForwardInputs ==
    [f : {"run_scrapper_and_forward"}, process : Processes, applied : {FALSE}]

\* What a call of service.<f>(process=...) has done when it ends: whether it
\* raised, and the texts analyze_tweet_sentiment was called with, in order.
Forwarded(raised, calls) == [raised |-> raised, calls |-> calls]

InitForward ==
    /\ file = AbsentFile
    /\ pc = "boot"
    /\ run = 1
    /\ Fresh
    /\ everWritten = {}
    /\ ordered = {}
    /\ absentAtStart = TRUE
    /\ in \in ForwardInputs
    /\ out = Forwarded(FALSE, <<>>)

\* service.run_scrapper_and_forward(process=mock_process): service.py defines
\* no such function, so the attribute lookup raises AttributeError before
\* anything is read from the process or sent to the classifier.
ApplyForward ==
    /\ in.f = "run_scrapper_and_forward" /\ ~in.applied
    /\ service_attr(in.f) = None
    /\ out' = Forwarded(TRUE, <<>>)
    /\ in' = [in EXCEPT !.applied = TRUE]
    /\ UNCHANGED pipelineVars

NextForward == ApplyForward

SpecForward == InitForward /\ [][NextForward]_vars

\* ------------------------------------------------------------- claims

\* The item of this run has reached its terminal outcome: the trade stage is
\* over, or the run ended.
TerminalReached == pc \in {"notify", "done"}

\* The fingerprints a load of the file as it is would find in it.
Persisted == IF file.kind = "list" THEN Range(file.items) ELSE {}

\* C1: once a fingerprint has been committed (in seen_tweets and written by a
\* completed save), no later poll of the same text, in this run or after a
\* restart, leads to a second client.order_place call for it.
C1_NoSecondCallOnceCommitted == ~(curWasCommitted /\ secondCall)

\* C2: within one engine invocation and within one run of service.main,
\* client.order_place is called at most once, whatever the broker answers.
C2_NoRetry == orderPlaceCalls <= 1 /\ result.calls <= 1

\* C2, its case: the broker failed the one submission and the run went on
\* without another.
C2_FailedOnce ==
    /\ pc = "notify"
    /\ result.state = "Failed"
    /\ result.calls = 1
    /\ orderPlaceCalls = 1

\* t is the part of h after its last '/', and a non-empty run of digits.
NumericTail(h, t) ==
    \E k \in 1..Len(h) :
        /\ t = SubSeq(h, Len(h) - k + 1, Len(h))
        /\ \A i \in Len(h) - k + 1..Len(h) : h[i] \in Digits
        /\ k = Len(h) \/ h[Len(h) - k] = "/"

HasNumericTail(h) == \E k \in 1..Len(h) : NumericTail(h, SubSeq(h, Len(h) - k + 1, Len(h)))

\* C3: for every broker response to a submission, a success status with a
\* location header ending in a non-empty numeric segment gives Confirmed with
\* that segment as identifier; a success status without such a header gives
\* Unconfirmed and no identifier; an error status gives Failed and no
\* identifier.
C3_ResponseMapping ==
    (in.applied /\ out.calls = 1 /\ in.resp.transport_ok) =>
        LET success == in.resp.status \in {200, 201}
            loc == in.resp.location
            numeric == loc # None /\ HasNumericTail(loc[1])
        IN /\ (success /\ numeric) =>
                /\ out.state = "Confirmed"
                /\ out.order_id # None
                /\ NumericTail(loc[1], out.order_id[1])
           /\ (success /\ ~numeric) =>
                /\ out.state = "Unconfirmed"
                /\ out.order_id = None
           /\ ~success =>
                /\ out.state = "Failed"
                /\ out.order_id = None

\* C3, its case: the header /17 of a success response is read as order 17.
C3_Confirmed17 ==
    /\ in.applied
    /\ in.f = "place_order_internal"
    /\ in.resp.location = Some(<<"/", "1", "7">>)
    /\ out.state = "Confirmed"
    /\ out.order_id = Some(<<"1", "7">>)

\* C4: the dedup store (set and file) is touched for an item only after the
\* item's cycle has reached its terminal outcome, never before the classifier
\* or the engine has been called for it.
C4_CommitOnlyAfterOutcome ==
    (cur # 0 /\ pc \in {"classify", "trade"}) =>
        (cur \notin seen_tweets /\ saveOutcome = "none")

\* C5: when the processing of an item ends with a failure of the classifier,
\* of the broker (Failed) or of the notifier, its fingerprint is not in the
\* dedup store afterwards.
C5_FailureLeavesItemUncommitted ==
    ( /\ pc = "done"
      /\ cur # 0
      /\ firmness = "None" \/ result.state = "Failed" \/ notified = Some(FALSE) )
    => (cur \notin seen_tweets /\ cur \notin Persisted)

\* C6: whenever the engine ends in Unconfirmed for an item, the item's
\* fingerprint is in the persisted dedup file at the end of that cycle.
C6_UnconfirmedIsPersisted ==
    (pc = "done" /\ result.state = "Unconfirmed") => cur \in Persisted

\* C7: after a process death while save_seen_tweets rewrites the file, a load
\* returns every fingerprint committed before the interrupted commit, and no
\* entry twice.
C7_CrashKeepsEarlierCommits ==
    (pc = "dead" /\ saveOutcome = "killed") =>
        LET loaded == load_seen_tweets(file)
        IN /\ ~loaded.raised
           /\ everWritten \subseteq loaded.set
           /\ file.kind = "list" => Cardinality(Range(file.items)) = Len(file.items)

\* C8: load_seen_tweets returns the empty set and never raises for every
\* missing or corrupt file, valid JSON that is no flat array of strings
\* included.
C8_LoadNeverRaises ==
    (pc \in {"poll", "done"} /\ saveOutcome = "none" /\ file.kind # "list") =>
        (~loadRaised /\ seen_tweets = {})

\* C9: with the dedup file absent at startup, the file does not exist at any
\* moment before the first item's cycle has reached its terminal outcome.
C9_FileCreatedAfterFirstOutcome ==
    (absentAtStart /\ file.kind # "absent" /\ pc # "dead") => TerminalReached

\* The positive prices a quote carries.
PositivePrices(q) ==
    { p \in Prices : p > 0 /\ (q.ask = Some(p) \/ q.last = Some(p)) }

\* Q is the floor of N / P, for P > 0.
IsFloor(Q, N, P) == Q * P <= N /\ N < (Q + 1) * P

IsPositive(p) == p # None /\ p[1] > 0

\* C11: for every ask and last price (absent, negative, zero or positive) of
\* an answered quote, get_quote returns the ask when it is positive, otherwise
\* the last price when that is positive, and fails only when neither is
\* positive.
C11_AskThenLast ==
    (in.applied /\ in.f = "get_quote" /\ in.q.ok) =>
        /\ IsPositive(in.q.ask) => (~out.raised /\ out.price = in.q.ask)
        /\ (~IsPositive(in.q.ask) /\ IsPositive(in.q.last)) =>
             (~out.raised /\ out.price = in.q.last)
        /\ out.raised => (~IsPositive(in.q.ask) /\ ~IsPositive(in.q.last))

\* The quantity a call of the engine was supplied with or computed, if any.
QuantityOf ==
    IF in.f = "place_order_internal" THEN Some(in.quantity) ELSE out.computed

\* C12: no order is submitted with a non-positive quantity: an order handed
\* to client.order_place has a quantity above zero, and a supplied or computed
\* quantity <= 0 ends in a failure (no identifier, state Failed) without any
\* client.order_place call, in execute_schwab_trade, execute_sell_trade and
\* place_order_internal alike.
C12_NoNonPositiveOrder ==
    in.applied =>
        /\ out.order # None => out.order[1].quantity > 0
        /\ out.calls > 0 => (out.order # None /\ QuantityOf # None /\ QuantityOf[1] > 0)
        /\ (QuantityOf # None /\ QuantityOf[1] <= 0) =>
             /\ out.calls = 0
             /\ out.order = None
             /\ out.order_id = None
             /\ out.state = "Failed"

\* C12, its case: a sale of 0.10 dollars at 333.33 computes zero shares and
\* fails before any submission.
C12_ZeroSharesRefused ==
    /\ in.applied
    /\ in.f = "execute_sell_trade"
    /\ in.amount = 10
    /\ out.computed = Some(0)
    /\ out.calls = 0
    /\ out.state = "Failed"

\* C13: every order sized from a notional amount uses the price of a quote
\* fetched in the same execution call, after the decision and before the
\* quantity is computed: the step that calls client.order_place is the trade
\* step, it makes exactly one client.quote call of its own, and the price and
\* quantity of the order are those of that answer, never of an earlier one.
C13_QuoteFetchedInSameCall ==
    [][ (orderPlaceCalls' > orderPlaceCalls) =>
          /\ pc = "trade" /\ action \in {"BUY", "SELL"} /\ action' = action
          /\ Len(quotes') = Len(quotes) + 1
          /\ result'.price # None
          /\ result'.price[1] \in PositivePrices(quotes'[Len(quotes')])
          /\ result'.order # None
          /\ IsFloor(result'.order[1].quantity, dollar_amount, result'.price[1]) ]_vars

\* C13, its case: in a later run of the process an order for 3 shares has
\* been placed at the price 333.33 of the quote fetched in that run.
C13_OrderInLaterRun ==
    /\ run > 1
    /\ orderPlaceCalls = 1
    /\ Len(quotes) = 1
    /\ quotes[1].ask = Some(33333)
    /\ result.price = Some(33333)
    /\ result.computed = Some(3)

\* The directions of a Signal, and the arguments that are Signals.
SignalDirections == {"Increased", "Decreased", "Unchanged", "Unclear"}
IsSignal(sa) ==
    /\ sa # None
    /\ sa[1].kind = "dict"
    /\ DOMAIN sa[1].items = required_keys
    /\ sa[1].items["tariff_sentiment_change"] \in SignalDirections

\* The subject has a table entry that is an object with ticker and action.
HasCompleteEntry(table, subject) ==
    /\ subject \in DOMAIN table
    /\ table[subject].kind = "dict"
    /\ {"ticker", "action"} \subseteq DOMAIN table[subject].items

C15_OrderFollowsDecision ==
    orderPlaceCalls > 0 =>
        /\ suggestion # None
        /\ suggestion[1].items["ticker"] = ticker
        /\ suggestion[1].items["action"] = result.order[1].instruction
        /\ suggestion[1].items["action"] # "N/A"

C18_EmptyTextShortCircuits ==
    (/\ in.applied
     /\ in.f \in {"analyze_tweet_sentiment", "analyze_tariff_firmness"}
     /\ \A i \in 1..Len(in.tweet_text) : in.tweet_text[i] = Blank)
    => (out.ret = None /\ out.sent = 0 /\ ~out.raised)

\* C18, its case: a text of one blank, with a service that would have
\* answered with a signal, gave None without a request.
C18_BlankText ==
    /\ in.applied
    /\ in.f = "analyze_tariff_firmness"
    /\ in.tweet_text = << Blank >>
    /\ in.response_text = Some(Bare(Some(Signal("China", "Increased"))))
    /\ out.ret = None
    /\ out.sent = 0

\* The value is a dictionary that names a subject.
NamesSubject(v) ==
    v # None /\ v[1].kind = "dict" /\ "country_reference" \in DOMAIN v[1].items

\* C19: when the service's answer names a subject that is not a key of the
\* mapping table, the Signal analyze_tweet_sentiment returns has the subject
\* "Unknown"; a subject that is a key of the table is returned unchanged.
C19_UnlistedBecomesUnknown ==
    (/\ in.applied
     /\ in.f = "analyze_tweet_sentiment"
     /\ strip(in.tweet_text) # <<>>
     /\ NamesSubject(_parse_llm_json_response(in.response_text).value))
    => LET named == _parse_llm_json_response(in.response_text).value[1].items
                       ["country_reference"]
       IN /\ ~out.raised
          /\ NamesSubject(out.ret)
          /\ out.ret[1].items["country_reference"] =
                IF named \in in.self.valid_countries THEN named ELSE "Unknown"

\* The text is one JSON document inside code fences, blanks allowed around
\* the fences and the document.
FencedDocument(text) ==
    text # None /\
    \E doc \in 1..Len(text[1]) :
        /\ text[1][doc].tok = "doc"
        /\ \E open \in 1..(doc - 1), close \in (doc + 1)..Len(text[1]) :
             /\ text[1][open] = Fence
             /\ text[1][close] = Fence
             /\ \A i \in 1..Len(text[1]) :
                  \/ i \in {open, doc, close}
                  \/ text[1][i] = Blank
                  \/ (i = open + 1 /\ text[1][i] = JsonWord)

\* C20: for every answer of the service (missing, empty, no JSON, JSON inside
\* code fences, JSON that is no object) the classifier returns a parsed
\* Signal or None and never raises to its caller; an answer that is valid
\* JSON once its fences are taken off is parsed by the second attempt.
C20_SoftFailure ==
    in.applied =>
        /\ in.f \in {"analyze_tweet_sentiment", "analyze_tariff_firmness"} =>
             /\ ~out.raised
             /\ out.ret = None \/ out.ret[1].kind = "dict"
        /\ in.f = "_parse_llm_json_response" =>
             /\ ~out.raised
             /\ FencedDocument(in.response_text) => out.attempts = 2

\* C21: send_to_llm calls analyze_tweet_sentiment exactly once for the text
\* and returns exactly what that call returns, None included; when the call
\* raises it returns None and raises nothing.
C21_WrapperReturnsRepoResult ==
    (in.applied /\ in.f = "send_to_llm") =>
        LET repo == analyze_tweet_sentiment(in.self, in.tweet_text, in.response_text)
        IN /\ out.calls = 1
           /\ ~out.raised
           /\ out.sent = repo.sent
           /\ out.ret = IF repo.raised THEN None ELSE repo.ret

\* C21, its case: the repository raised on the answer 5 and the wrapper
\* returned None.
C21_RepoRaised ==
    /\ in.applied
    /\ in.f = "send_to_llm"
    /\ in.tweet_text = << Word >>
    /\ in.response_text = Some(Bare(Some(Number(5))))
    /\ analyze_tweet_sentiment(in.self, in.tweet_text, in.response_text).raised
    /\ out.ret = None
    /\ ~out.raised

\* C22: send_pushover_notification returns a boolean and never raises; it
\* returns True only when the service answered, with a good HTTP status, a
\* body whose status is 1, and False for a missing credential, an empty
\* message, a transport error, a bad HTTP status and a malformed body.
C22_BooleanNeverRaises ==
    in.applied =>
        /\ ~out.raised
        /\ out.ret \in BOOLEAN
        /\ out.ret <=> /\ in.env.api_token /\ in.env.user_key /\ in.message # ""
                       /\ in.resp.transport_ok
                       /\ in.resp.status = 200
                       /\ in.resp.body = "status_1"
        /\ (~in.env.api_token \/ ~in.env.user_key \/ in.message = "") => out.posts = 0

\* C22, its case: the service answered 200 with a body that is no JSON, and
\* the notifier returned False.
C22_MalformedBody ==
    /\ in.applied
    /\ in.env.api_token /\ in.env.user_key /\ in.message = "m"
    /\ in.resp.transport_ok /\ in.resp.status = 200 /\ in.resp.body = "not_json"
    /\ out.posts = 1
    /\ out.ret = FALSE
    /\ ~out.raised

\* The steps at which an exception other than Ctrl+C can be raised while an
\* item is polled or processed.
CycleSteps == {"poll", "refresh", "classify", "trade"}

\* C23: an exception other than Ctrl+C raised while an item is polled or
\* processed is caught at the cycle boundary: the step that raises it leads
\* to the cooldown with the process still running, and the cooldown is left
\* only for a further poll or by Ctrl+C.
C23_ErrorContained ==
    [][ /\ (out'.raised # out.raised /\ out'.raised \in CycleSteps)
            => (out'.pc = "cooldown" /\ out'.exit = None)
        /\ (out.pc = "cooldown" /\ out'.pc # "cooldown")
            => (out'.pc = "poll" \/ out'.interrupted = "cooldown") ]_vars


\* C24: the loop repeats: it is left only by Ctrl+C or by a setup failure
\* before it starts, so a process that has found and processed an item is
\* still in its loop or was stopped by one of these.
C24_LoopRepeats ==
    /\ out.ended_by \in {"none", "interrupt", "setup", "login"}
    /\ out.notifications > 0 =>
           (out.pc \in LoopSteps \/ out.ended_by = "interrupt")


\* C25: the active wait always ends. Its duration is drawn within
\* [refresh_interval_min, refresh_interval_max] and is never outlasted; each
\* tick checks the indicator once and either advances the elapsed time by
\* one tick (indicator absent, or the check raised) or ends the wait at once
\* (indicator present); the wait ends without the indicator only when the
\* duration has elapsed; a check that raises leaves the wait running; and
\* every wait is eventually over.
C25_ActiveWaitTerminates ==
    /\ [](out.pc = "wait" =>
             /\ out.wait_duration \in refresh_interval_min..refresh_interval_max
             /\ out.elapsed <= out.wait_duration)
    /\ [][ /\ out.pc = "wait" =>
                \/ /\ out'.pc = "wait"
                   /\ out.elapsed < out.wait_duration
                   /\ out'.elapsed = out.elapsed + 1
                \/ /\ out'.pc = "refresh"
                   /\ out'.found_indicator \/ out.elapsed = out.wait_duration
                \/ out'.interrupted = "wait"
           /\ (out.pc = "wait" /\ out'.check_err /\ ~out.check_err) =>
                (out'.pc = "wait" /\ out'.exit = None) ]_vars
    /\ (out.pc = "wait") ~> (out.pc # "wait")

\* C25, its case: a wait in which a check raised ran to the end of its drawn
\* duration without the indicator, and the refresh is next.
C25_WaitedOut ==
    /\ out.pc = "refresh"
    /\ ~out.found_indicator
    /\ out.check_err
    /\ out.elapsed = out.wait_duration
    /\ out.wait_duration = refresh_interval_max


\* C26: Ctrl+C delivered during a poll, the active wait, the refresh or the
\* error cooldown stops the loop and the process ends with exit code 0; a
\* run that completes without Ctrl+C also ends with 0.
C26_InterruptExitsZero ==
    /\ out.interrupted \in LoopSteps =>
           /\ out.pc \in {"finishing", "exited"}
           /\ out.exit # None => out.exit = Some(0)
    /\ (out.interrupted = "none" /\ out.notifications > 0 /\ out.exit # None) =>
           out.exit = Some(0)


\* C27: a process started without the classifier key, without well-formed
\* broker keys or without the login of the content source never polls,
\* classifies or orders, and when it has ended its exit code is 1 (runs in
\* which loading the dedup file raised are left aside).
C27_MissingCredentialIsFatal ==
    ((~in.GEMINI_API_KEY \/ ~in.app_key \/ ~in.TRUTH_SOCIAL_USERNAME)
       /\ out.raised # "setup_driver") =>
        /\ out.cycles = 0
        /\ out.classified = 0
        /\ out.orders = 0 /\ out.outstanding = 0
        /\ out.exit # None => out.exit = Some(1)


\* C28: cycles do not overlap: a poll begins only while no item of this run
\* has been committed, classified, ordered or notified, the main flow stays
\* at the submission while its request is outstanding (unless Ctrl+C takes
\* it from there), and at most one submission is outstanding.
C28_NoOverlap ==
    /\ [](/\ out.outstanding <= 1
          /\ out.orders + out.outstanding <= 1
          /\ out.outstanding > 0 =>
                (out.pc = "submitting" \/ out.interrupted = "submitting")
          /\ out.pc \in LoopSteps =>
                /\ out.commits = 0 /\ out.classified = 0
                /\ out.outstanding = 0 /\ out.orders = 0
                /\ out.notifications = 0)
    /\ [][ out'.cycles > out.cycles =>
              /\ out.commits = 0 /\ out.classified = 0
              /\ out.outstanding = 0 /\ out.orders = 0
              /\ out.notifications = 0 ]_vars

\* C28, its case: the second poll of a run found an item, the item was
\* committed and classified, and its order is outstanding.
C28_OrderOutstanding ==
    /\ out.cycles = 2
    /\ out.commits = 1
    /\ out.classified = 1
    /\ out.pc = "submitting"
    /\ out.outstanding = 1


\* What the main flow and the stores hold, without the teardown thread.
MainFlow ==
    << out.pc, out.exit, out.code, out.raised, out.interrupted, out.cycles,
       out.commits, out.classified, out.outstanding, out.orders,
       out.notifications, file, seen_tweets >>

\* C29: the browser teardown is a thread started only when the monitoring
\* loop has been left; the step that starts it does not wait for it; while
\* it runs the main flow can finish; and a step of the thread, whether
\* driver.quit() returns or raises, changes nothing of the main flow, of the
\* dedup store or of the orders.
C29_DetachedTeardown ==
    /\ [](/\ out.quit_thread # "none" =>
                out.pc \in ItemSteps \cup {"finishing", "exited"}
          /\ (out.pc = "finishing" /\ out.quit_thread = "running") =>
                ENABLED Finish)
    /\ [][ /\ (out.quit_thread = "none" /\ out'.quit_thread # "none") =>
                out'.quit_thread = "running"
           /\ (out.quit_thread = "running" /\ out'.quit_thread \in {"done", "failed"}) =>
                MainFlow' = MainFlow ]_vars

\* C29, its case: the process has exited with code 0 while the teardown
\* thread was still running.
C29_ExitedWithoutWaiting ==
    /\ out.pc = "exited"
    /\ out.exit = Some(0)
    /\ out.quit_thread = "abandoned"


\* C30: execute_sell_trade called with a positive quantity Q as its fourth
\* argument hands place_order_internal the quantity Q and the instruction
\* SELL, once, and returns the order identifier that call returns.
C30_SellsSuppliedQuantity ==
    (in.f = "execute_sell_trade" /\ in.applied /\ in.amount > 0) =>
        LET Q == in.amount
            primitive == place_order_internal(Q, "SELL", in.resp)
        IN /\ out.calls = primitive.calls
           /\ out.order = primitive.order
           /\ out.order = Some([instruction |-> "SELL", quantity |-> Q])
           /\ out.order_id = primitive.order_id


\* C31: execute_sell_trade called with a zero or negative quantity as its
\* fourth argument returns None and never reaches place_order_internal (in
\* execute_sell_trade that call is made exactly when a quantity has been
\* computed from a quote).
C31_NonPositiveSellRefused ==
    (in.f = "execute_sell_trade" /\ in.applied /\ in.amount <= 0) =>
        /\ ~out.raised
        /\ out.order_id = None
        /\ out.computed = None
        /\ out.calls = 0


\* C32: execute_schwab_trade and execute_sell_trade never raise: whatever
\* the quote and the broker answer, the call returns, a failure is the state
\* Failed with no identifier, and client.order_place was called at most once.
C32_TradeNeverRaises ==
    (in.f \in {"execute_schwab_trade", "execute_sell_trade"} /\ in.applied) =>
        /\ ~out.raised
        /\ out.calls <= 1
        /\ out.state = "Failed" => out.order_id = None


\* The delimiter-terminated items of an output: for each delimiter line, the
\* lines since the previous one.
RECURSIVE ItemsOf(_, _)
ItemsOf(lines, item) ==
    IF lines = <<>> THEN <<>>
    ELSE IF Head(lines) = Delimiter
    THEN (IF item = <<>> THEN <<>> ELSE <<item>>) \o ItemsOf(Tail(lines), <<>>)
    ELSE ItemsOf(Tail(lines), Append(item, Head(lines)))

\* C33: service.run_scrapper_and_forward, given a scraper process, returns
\* when the output ends, having called analyze_tweet_sentiment exactly once
\* for every delimiter-terminated item of the output, in the order emitted.
C33_ForwardsEveryItem ==
    (in.f = "run_scrapper_and_forward" /\ in.applied) =>
        /\ ~out.raised
        /\ out.calls = ItemsOf(in.process.stdout, <<>>)


\* C34: while a process runs, the in-memory set seen_tweets only grows, and
\* once a save of the run has succeeded the persisted file is a list that
\* holds each member of the set exactly once and nothing else.
C34_DedupSetInvariant ==
    /\ [][ (run' = run /\ pc' # "dead") => seen_tweets \subseteq seen_tweets' ]_vars
    /\ [](saveOutcome = "ok" =>
             /\ file.kind = "list"
             /\ Range(file.items) = seen_tweets
             /\ Len(file.items) = Cardinality(seen_tweets))

\* C34, its case: a run that loaded the text 1 from the file found the new
\* text 2, and the save wrote both.
C34_GrownAndSaved ==
    /\ saveOutcome = "ok"
    /\ cur = 2
    /\ seen_tweets = {1, 2}
    /\ file.kind = "list"
    /\ Len(file.items) = 2


\* C35: when the classifier hands back no usable result for a new item, no
\* order is placed for it, the action is the non-actionable one, and the run
\* ends only after the notification step: no exception cuts the cycle short.
C35_NoResultIsNonActionable ==
    firmness = "None" =>
        /\ orderPlaceCalls = 0
        /\ action = "N/A"
        /\ pc = "done" => notified # None


\* What the caller of a trade function holds when the call is over: whether
\* it raised, and the pair (order_id, calculated_quantity) of a Buy or the
\* order_id of a Sell.
HandedBack(f, r) ==
    IF f = "execute_schwab_trade" THEN << r.raised, r.order_id, r.quantity >>
    ELSE << r.raised, r.order_id >>

\* The same trade function with the same arguments, against another quote
\* and another answer of the broker.
TradeAgainst(q, resp) ==
    IF in.f = "execute_schwab_trade"
    THEN execute_schwab_trade(in.amount, in.instruction, q, resp)
    ELSE execute_sell_trade(in.amount, q, resp)

\* C36: what a Buy or a Sell hands back tells the engine's terminal state:
\* two calls that hand back the same value ended in the same state, so an
\* Unconfirmed order is never handed back as a Failed one is.
C36_ResultTellsState ==
    (in.f \in {"execute_schwab_trade", "execute_sell_trade"} /\ in.applied) =>
        \A q \in Quotes, resp \in PipelineResponses :
            LET other == TradeAgainst(q, resp)
            IN HandedBack(in.f, other) = HandedBack(in.f, out) => other.state = out.state


\* C37: for a new item whose classification succeeded the notifier is called
\* once, after the execution stage and whatever its outcome: the notifier
\* has not answered before the trade step is over, and a run that has ended
\* has the notifier's answer.
C37_NotifiedWhateverTheOutcome ==
    (firmness \notin {"NotRun", "None"}) =>
        /\ pc \in {"classify", "trade", "notify"} => notified = None
        /\ pc = "done" => notified # None


C39_OldPollChangesNothing ==
    [][ (pc = "poll" /\ pc' # "done" /\ scraped' # None) =>
          LET current_tweet_text == scraped'[1]
          IN IF current_tweet_text # 0 /\ current_tweet_text \notin seen_tweets
             THEN /\ cur' = current_tweet_text
                  /\ seen_tweets' = seen_tweets \cup {current_tweet_text}
                  /\ pc' \in {"classify", "dead"}
             ELSE /\ seen_tweets' = seen_tweets
                  /\ file' = file
                  /\ cur' = cur /\ cur = 0
                  /\ pc' = "poll" ]_vars

\* C39, its case: with the text 1 in the set, a poll scraped the text 1
\* again; nothing was handed on and the file holds what it held.
C39_SeenAgain ==
    /\ pc = "poll"
    /\ polls = 1
    /\ scraped = Some(1)
    /\ seen_tweets = {1}
    /\ cur = 0
    /\ file = ListFile(<<1>>)

====
